---- MODULE Spec2Model ----
(***************************************************************************)
(* proj2-serv: a Tokio TCP + UDP throughput server (src/src/main.rs).      *)
(*                                                                         *)
(* Time.  Instants are whole numbers of seconds on one monotonic clock,    *)
(* `now`; Tick advances it.  An action is the code a task runs between two *)
(* suspension points (.await), so the clock can advance between any two    *)
(* actions.  Sleeps and yields shorter than a second are suspension points *)
(* at which Tick may or may not fire.                                      *)
(*                                                                         *)
(* Payloads.  A datagram or TCP read is a sequence of tokens: "WS" one     *)
(* whitespace byte, "X" one other byte, "SD" the 14 bytes START_DOWNLOAD,  *)
(* "SU" the 12 bytes START_UPLOAD.                                         *)
(***************************************************************************)
EXTENDS Integers, Sequences, FiniteSets, TLC

\* ---------------------------------------------------------------- bounds
\* The clock stops at MaxTime.
MaxTime == 6
\* An upload entry's byte count is not driven past MaxTotal.
MaxTotal == 2
\* At most MaxBursts burst senders are spawned.
MaxBursts == 1
\* A burst sender's successful sends stop after MaxSent datagrams.
MaxSent == 17
\* At most MaxConns TCP connections are accepted.
MaxConns == 1
\* A TCP download phase's successful writes stop after MaxChunks chunks.
MaxChunks == 2
\* A TCP upload phase's byte count is not driven past MaxRx.
MaxRx == 2

\* ------------------------------------------------------ program constants
\* Duration::from_secs(5): every measurement window.
WINDOW == 5
\* const ACKS: usize = 3 (both UDP branches).
ACKS == 3
\* const BURST: usize = 16
BURST == 16
\* const PAYLOAD_SIZE: usize = 1400
PAYLOAD_SIZE == 1400
\* const BUF_SIZE: usize = 64 * 1024
BUF_SIZE == 65536

\* Mutant: the window is still open at exactly 5 s.
WindowOpen_Inclusive(start, t) == t - start <= WINDOW

\* start.elapsed() < Duration::from_secs(5), read at t: the loop condition of the
\* burst sender and of both TCP phases.
WindowOpen(start, t) == t - start < WINDOW

Addrs == {"A", "B"}
NoAddr == "none"

\* ---------------------------------------------------------------- payloads
TokLen(tok) == CASE tok = "SD" -> 14 [] tok = "SU" -> 12 [] OTHER -> 1

RECURSIVE ByteLen(_)
ByteLen(p) == IF p = <<>> THEN 0 ELSE TokLen(Head(p)) + ByteLen(Tail(p))

RECURSIVE TrimStart(_)
TrimStart(p) == IF p # <<>> /\ Head(p) = "WS" THEN TrimStart(Tail(p)) ELSE p

RECURSIVE TrimEnd(_)
TrimEnd(p) ==
    IF p # <<>> /\ p[Len(p)] = "WS" THEN TrimEnd(SubSeq(p, 1, Len(p) - 1)) ELSE p

\* String::from_utf8_lossy(..).trim()
Trim(p) == TrimEnd(TrimStart(p))

\* Mutant: the command is looked for anywhere in the text (contains).
StartsWith_Contains(m, tok) == \E i \in DOMAIN m : m[i] = tok

\* str::starts_with
StartsWith(m, tok) == m # <<>> /\ Head(m) = tok

\* Mutant: the commands are looked for in the untrimmed text.
Classify_Untrimmed(p) ==
    IF StartsWith(p, "SD") THEN "download"
    ELSE IF StartsWith(p, "SU") THEN "upload"
    ELSE "data"

\* The if / else if / else of both command dispatchers.
Classify(p) ==
    IF StartsWith(Trim(p), "SD") THEN "download"
    ELSE IF StartsWith(Trim(p), "SU") THEN "upload"
    ELSE "data"

ControlPayloads == {<<"SD">>, <<"WS", "SD", "X">>, <<"SU">>, <<"SU", "WS">>}
DataPayloads == {<<>>, <<"X">>, <<"WS", "X">>}
Payloads == ControlPayloads \cup DataPayloads

VARIABLES
    now,      \* the monotonic clock (Instant::now())
    dpc,      \* run_udp_server: where the dispatcher is
    dAddr,    \* run_udp_server: addr of the datagram being handled
    dAcks,    \* run_udp_server: iterations of the ACK loop done
    dStale,   \* history: the entries already expired when the handling in
              \* progress started
    table,    \* active_uploads: a set of [addr, deadline, total]
    lock,     \* active_uploads: who holds the MutexGuard at this suspension
              \* point ("free": nobody)
    out,      \* what the dispatcher's last step printed; and (history, kind
              \* "overwrote") the live entry a START_UPLOAD replaced
    sess,     \* history: per address, the most recent START_UPLOAD
    bursts,   \* the spawned burst senders
    accPc,    \* run_tcp_server: where the acceptor is
    accErrs,  \* history: accept errors so far (counted up to 2)
    conns     \* the spawned TCP handlers

vars == <<now, dpc, dAddr, dAcks, dStale, table, lock, out, sess, bursts, accPc, accErrs, conns>>
udpVars == <<dpc, dAddr, dAcks, dStale, table, lock, out, sess>>
tcpVars == <<accPc, accErrs, conns>>

\* ------------------------------------------------------- the session table
\* HashMap::get / get_mut
MapGet(map, addr) == {e \in map : e.addr = addr}

\* HashMap::remove
MapRemove(map, addr) == {e \in map : e.addr # addr}

\* Mutant: an insert that adds a second entry for an existing key.
MapInsert_NoReplace(map, addr, deadline, total) ==
    map \cup {[addr |-> addr, deadline |-> deadline, total |-> total]}

\* HashMap::insert: the value of an existing key is replaced.
MapInsert(map, addr, deadline, total) ==
    MapRemove(map, addr) \cup {[addr |-> addr, deadline |-> deadline, total |-> total]}

Line(kind, addr, total) == [kind |-> kind, addr |-> addr, total |-> total]

\* START_UPLOAD, lines 225-229: deadline = now + 5 s, insert (addr, (deadline, 0)).
RegisterUpload(map, addr, t) == MapInsert(map, addr, t + WINDOW, 0)

\* Mutant: now < deadline, so a datagram processed at the deadline is not counted.
CountData_Strict(map, addr, len, t) ==
    IF MapGet(map, addr) = {}
    THEN [map |-> map, log |-> {Line("nowindow", addr, len)}]
    ELSE LET e == CHOOSE x \in MapGet(map, addr) : TRUE IN
         IF t < e.deadline
         THEN [map |-> (map \ {e}) \cup {[e EXCEPT !.total = e.total + len]},
               log |-> {}]
         ELSE [map |-> MapRemove(map, addr),
               log |-> {Line("final", addr, e.total)}]

\* Mutant: the datagram that finds its entry expired is counted before the report.
CountData_CountsLate(map, addr, len, t) ==
    IF MapGet(map, addr) = {}
    THEN [map |-> map, log |-> {Line("nowindow", addr, len)}]
    ELSE LET e == CHOOSE x \in MapGet(map, addr) : TRUE IN
         IF t <= e.deadline
         THEN [map |-> (map \ {e}) \cup {[e EXCEPT !.total = e.total + len]},
               log |-> {}]
         ELSE [map |-> MapRemove(map, addr),
               log |-> {Line("final", addr, e.total + len)}]

\* Mutant: a datagram without an entry opens one (entry().or_insert).
CountData_CreatesEntry(map, addr, len, t) ==
    IF MapGet(map, addr) = {}
    THEN [map |-> map \cup {[addr |-> addr, deadline |-> t + WINDOW, total |-> len]},
          log |-> {Line("nowindow", addr, len)}]
    ELSE LET e == CHOOSE x \in MapGet(map, addr) : TRUE IN
         IF t <= e.deadline
         THEN [map |-> (map \ {e}) \cup {[e EXCEPT !.total = e.total + len]},
               log |-> {}]
         ELSE [map |-> MapRemove(map, addr),
               log |-> {Line("final", addr, e.total)}]

\* Non-control datagram, lines 248-261: count, or report and remove, or ignore.
CountData(map, addr, len, t) ==
    IF MapGet(map, addr) = {}
    THEN [map |-> map, log |-> {Line("nowindow", addr, len)}]
    ELSE LET e == CHOOSE x \in MapGet(map, addr) : TRUE IN
         IF t <= e.deadline
         THEN [map |-> (map \ {e}) \cup {[e EXCEPT !.total = e.total + len]},
               log |-> {}]
         ELSE [map |-> MapRemove(map, addr),
               log |-> {Line("final", addr, e.total)}]

\* Lines 263-273: remove every entry with now > deadline and report its total.
Sweep(map, t) ==
    LET expired == {e \in map : t > e.deadline} IN
    [map |-> {e \in map : e.addr \notin {x.addr : x \in expired}},
     log |-> {Line("swept", e.addr, e.total) : e \in expired}]

\* ------------------------------------------------------------- history
NoSession == [start |-> -1, sum |-> 0, reports |-> 0]

\* A START_UPLOAD from addr is processed at t: a new session.
SessOpen(s, addr, t) == [s EXCEPT ![addr] = [start |-> t, sum |-> 0, reports |-> 0]]

\* Mutant: the entry a START_UPLOAD replaces is reported like an expired one.
Overwritten_Reported(map, addr, t) ==
    {Line("final", addr, e.total) : e \in MapGet(map, addr)}

\* What a START_UPLOAD from addr at t overwrites in map.
Overwritten(map, addr, t) ==
    {Line(IF t > e.deadline THEN "overwrote-expired" ELSE "overwrote", addr, e.total) :
        e \in MapGet(map, addr)}

\* The entries of map whose deadline has passed at t.
Stale(map, t) == {e \in map : t > e.deadline}

\* A non-control datagram of len bytes from addr is processed at t.
SessData(s, addr, len, t) ==
    IF s[addr].start >= 0 /\ t <= s[addr].start + WINDOW
    THEN [s EXCEPT ![addr].sum = @ + len]
    ELSE s

\* The lines of log are printed: one more report for each address named.
SessReport(s, log) ==
    [a \in Addrs |->
        LET n == Cardinality({l \in log : l.addr = a /\ l.kind \in {"final", "swept"}}) IN
        [s[a] EXCEPT !.reports = IF @ + n > 2 THEN 2 ELSE @ + n]]

\* ---------------------------------------------------------------- clock
Tick ==
    /\ now < MaxTime
    /\ now' = now + 1
    /\ UNCHANGED <<udpVars, bursts>>
    /\ UNCHANGED tcpVars

\* ------------------------------------------------------------ dispatcher
\* tokio::spawn(async move { .. }) of lines 178-220: a task that has not run yet.
\* sendAt (history) is when the send in flight was initiated.
NewBurst(addr) ==
    [dest |-> addr, pc |-> "spawned", start |-> -1, sent |-> 0, any |-> FALSE,
     i |-> 0, sendAt |-> -1]

\* Mutant: the guard of the insert is a local of the whole else-if block, so it is
\* alive during the ACK and probe sends.
GuardAfterInsert_Held == "dispatcher"

\* The guard of the insert is the local of a block of its own (lines 226-229) and
\* is dropped at the block's end, before the first send.
GuardAfterInsert == "free"

\* The guard taken at line 249 is dropped at the end of the else block (line 274),
\* after the sweep and before recv_from; no .await lies between.
GuardAfterSweep == "free"

\* recv_from returns Ok((len, addr)) with payload p: lines 159-164, 223-229, 246-274.
\* A non-control datagram reads the clock twice, before and after lock().await
\* (lines 248, 264): the sweep's reading t2 may be later than the first.
Deliver(a, p) ==
    /\ dpc = "recv"
    /\ LET kind == Classify(p)
           len == ByteLen(p) IN
       CASE kind = "download" ->
              /\ Len(bursts) < MaxBursts
              /\ dpc' = "dl_ack"
              /\ dAddr' = a
              /\ dAcks' = 0
              /\ dStale' = Stale(table, now)
              /\ out' = {}
              /\ UNCHANGED <<now, table, lock, sess, bursts>>
         [] kind = "upload" ->
              /\ lock = "free"
              /\ table' = RegisterUpload(table, a, now)
              /\ lock' = GuardAfterInsert
              /\ sess' = SessOpen(sess, a, now)
              /\ dpc' = "ul_ack"
              /\ dAddr' = a
              /\ dAcks' = 0
              /\ dStale' = Stale(table, now)
              /\ out' = Overwritten(table, a, now)
              /\ UNCHANGED <<now, bursts>>
         [] OTHER ->
              /\ lock = "free"
              /\ lock' = GuardAfterSweep
              /\ \A e \in MapGet(table, a) : now <= e.deadline => e.total + len <= MaxTotal
              /\ \E t2 \in {now, now + 1} :
                   /\ t2 <= MaxTime
                   /\ LET c == CountData(table, a, len, now)
                          s == Sweep(c.map, t2) IN
                      /\ table' = s.map
                      /\ out' = c.log \cup s.log
                      /\ sess' = SessReport(SessData(sess, a, len, now), c.log \cup s.log)
                      /\ now' = t2
              /\ dAddr' = a
              /\ UNCHANGED <<dpc, dAcks, dStale, bursts>>
    /\ UNCHANGED tcpVars

\* Mutant: a failed ACK_DOWNLOAD send gives the request up (send_to(..).await?).
DlAckDone_GivesUp(ok) ==
    /\ dpc = "dl_ack"
    /\ dpc' = IF ok THEN "dl_sleep" ELSE "recv"
    /\ out' = IF ok THEN {} ELSE {Line("ackfail", dAddr, 0)}
    /\ UNCHANGED <<now, dAddr, dAcks, dStale, table, lock, sess, bursts>>
    /\ UNCHANGED tcpVars

\* send_to(b"ACK_DOWNLOAD") returns (Ok or Err, line 170); then the sleep starts.
DlAckDone(ok) ==
    /\ dpc = "dl_ack"
    /\ dpc' = "dl_sleep"
    /\ out' = IF ok THEN {} ELSE {Line("ackfail", dAddr, 0)}
    /\ UNCHANGED <<now, dAddr, dAcks, dStale, table, lock, sess, bursts>>
    /\ UNCHANGED tcpVars

\* The 10 ms sleep ends (line 173): next ACK, or spawn the burst sender and continue.
DlSleepDone ==
    /\ dpc = "dl_sleep"
    /\ dAcks' = dAcks + 1
    /\ IF dAcks + 1 < ACKS
       THEN dpc' = "dl_ack" /\ UNCHANGED bursts
       ELSE dpc' = "recv" /\ bursts' = Append(bursts, NewBurst(dAddr))
    /\ dStale' = IF dAcks + 1 < ACKS THEN dStale ELSE {}
    /\ out' = {}
    /\ UNCHANGED <<now, dAddr, table, lock, sess>>
    /\ UNCHANGED tcpVars

\* send_to(b"ACK_UPLOAD") returns (line 235); then the sleep starts.
UlAckDone(ok) ==
    /\ dpc = "ul_ack"
    /\ dpc' = "ul_sleep"
    /\ out' = IF ok THEN {} ELSE {Line("ackfail", dAddr, 0)}
    /\ UNCHANGED <<now, dAddr, dAcks, dStale, table, lock, sess, bursts>>
    /\ UNCHANGED tcpVars

\* The 20 ms sleep ends (line 238): next ACK, or the probe send starts.
UlSleepDone ==
    /\ dpc = "ul_sleep"
    /\ dAcks' = dAcks + 1
    /\ dpc' = IF dAcks + 1 < ACKS THEN "ul_ack" ELSE "ul_probe"
    /\ out' = {}
    /\ UNCHANGED <<now, dAddr, dStale, table, lock, sess, bursts>>
    /\ UNCHANGED tcpVars

\* Mutant: a failed probe send takes the registration back.
UlProbeDone_Unregisters(ok) ==
    /\ dpc = "ul_probe"
    /\ dpc' = "recv"
    /\ dStale' = {}
    /\ out' = IF ok THEN {Line("registered", dAddr, 0)} ELSE {Line("probefail", dAddr, 0)}
    /\ table' = IF ok THEN table ELSE MapRemove(table, dAddr)
    /\ UNCHANGED <<now, dAddr, dAcks, lock, sess, bursts>>
    /\ UNCHANGED tcpVars

\* send_to(b"P") returns (lines 241-245); back to recv_from.
UlProbeDone(ok) ==
    /\ dpc = "ul_probe"
    /\ dpc' = "recv"
    /\ dStale' = {}
    /\ out' = IF ok THEN {Line("registered", dAddr, 0)} ELSE {Line("probefail", dAddr, 0)}
    /\ UNCHANGED <<now, dAddr, dAcks, table, lock, sess, bursts>>
    /\ UNCHANGED tcpVars

\* recv_from returns Err (lines 276-279): report, sleep 10 ms.
RecvErr ==
    /\ dpc = "recv"
    /\ dpc' = "err_sleep"
    /\ out' = {Line("recverr", NoAddr, 0)}
    /\ UNCHANGED <<now, dAddr, dAcks, dStale, table, lock, sess, bursts>>
    /\ UNCHANGED tcpVars

\* The sleep after a receive error ends (line 279): the loop receives again.
RecvErrSleepDone ==
    /\ dpc = "err_sleep"
    /\ dpc' = "recv"
    /\ out' = {}
    /\ UNCHANGED <<now, dAddr, dAcks, dStale, table, lock, sess, bursts>>
    /\ UNCHANGED tcpVars

\* ---------------------------------------------------------- burst sender
\* The while condition (line 187) read at t: a new burst whose first send_to is
\* initiated at once (lines 189-191), or the final report (line 219).
NextBurstOrDone(b, t) ==
    IF WindowOpen(b.start, t)
    THEN [b EXCEPT !.any = FALSE, !.i = 0, !.pc = "send", !.sendAt = t]
    ELSE [b EXCEPT !.pc = "done", !.sendAt = -1]

\* The task first runs: start = Instant::now(), sent_bytes = 0 (lines 184-187).
BurstBegin(k) ==
    /\ k \in DOMAIN bursts
    /\ bursts[k].pc = "spawned"
    /\ bursts' = [bursts EXCEPT ![k] = NextBurstOrDone([@ EXCEPT !.start = now], now)]
    /\ UNCHANGED <<now, udpVars>>
    /\ UNCHANGED tcpVars

\* send_to returns Ok(n) (lines 192-195): count, and the for loop goes on or ends.
BurstSendOk(k) ==
    /\ k \in DOMAIN bursts
    /\ bursts[k].pc = "send"
    /\ bursts[k].sent + PAYLOAD_SIZE <= MaxSent * PAYLOAD_SIZE
    /\ LET b == [bursts[k] EXCEPT !.sent = @ + PAYLOAD_SIZE, !.any = TRUE, !.i = @ + 1] IN
       bursts' = [bursts EXCEPT ![k] =
                    IF b.i < BURST
                    THEN [b EXCEPT !.sendAt = now]
                    ELSE [b EXCEPT !.pc = "yield", !.sendAt = -1]]
    /\ UNCHANGED <<now, udpVars>>
    /\ UNCHANGED tcpVars

\* send_to returns Err, WouldBlock or another (lines 196-206): the backoff sleep.
BurstSendErr(k) ==
    /\ k \in DOMAIN bursts
    /\ bursts[k].pc = "send"
    /\ bursts' = [bursts EXCEPT ![k] = [@ EXCEPT !.pc = "backoff", !.sendAt = -1]]
    /\ UNCHANGED <<now, udpVars>>
    /\ UNCHANGED tcpVars

\* Mutant: after the backoff the failed send is tried again in the same burst.
BurstBackoffDone_Retries(k) ==
    /\ k \in DOMAIN bursts
    /\ bursts[k].pc = "backoff"
    /\ bursts' = [bursts EXCEPT ![k] = [@ EXCEPT !.pc = "send", !.sendAt = now]]
    /\ UNCHANGED <<now, udpVars>>
    /\ UNCHANGED tcpVars

\* The backoff sleep ends and the burst is broken off (lines 199-204); then the
\* yield, or the sleep of a burst that sent nothing (lines 212-216).
BurstBackoffDone(k) ==
    /\ k \in DOMAIN bursts
    /\ bursts[k].pc = "backoff"
    /\ bursts' = [bursts EXCEPT ![k].pc = IF bursts[k].any THEN "yield" ELSE "idle"]
    /\ UNCHANGED <<now, udpVars>>
    /\ UNCHANGED tcpVars

\* yield_now returns (line 213): the while condition is read again.
BurstYieldDone(k) ==
    /\ k \in DOMAIN bursts
    /\ bursts[k].pc = "yield"
    /\ bursts' = [bursts EXCEPT ![k] = NextBurstOrDone(@, now)]
    /\ UNCHANGED <<now, udpVars>>
    /\ UNCHANGED tcpVars

\* Mutant: a burst that sent nothing is started again without reading the clock.
BurstIdleDone_Retries(k) ==
    /\ k \in DOMAIN bursts
    /\ bursts[k].pc = "idle"
    /\ bursts' = [bursts EXCEPT ![k] = [@ EXCEPT !.any = FALSE, !.i = 0, !.pc = "send", !.sendAt = now]]
    /\ UNCHANGED <<now, udpVars>>
    /\ UNCHANGED tcpVars

\* The sleep of a burst that sent nothing ends (line 215): the condition again.
BurstIdleDone(k) ==
    /\ k \in DOMAIN bursts
    /\ bursts[k].pc = "idle"
    /\ bursts' = [bursts EXCEPT ![k] = NextBurstOrDone(@, now)]
    /\ UNCHANGED <<now, udpVars>>
    /\ UNCHANGED tcpVars

BurstStep(k) ==
    \/ BurstBegin(k)
    \/ BurstSendOk(k)
    \/ BurstSendErr(k)
    \/ BurstBackoffDone(k)
    \/ BurstYieldDone(k)
    \/ BurstIdleDone(k)

\* ------------------------------------------------------------- acceptor
\* tokio::spawn(handle_tcp_client(..)) of lines 66-70: the handler awaits its first
\* command.  opAt (history): when the read or write in flight was initiated;
\* late (history): counted reads that returned at or after the end of the window
\* (counted up to 2); rep: the byte count the last phase printed (-1: none).
NewConn ==
    [pc |-> "cmd", ret |-> "none", start |-> -1, bytes |-> 0, opAt |-> -1,
     late |-> 0, rep |-> -1]

\* accept returns Ok (lines 64-71): spawn a handler, accept again.
AcceptOk ==
    /\ accPc = "accept"
    /\ Len(conns) < MaxConns
    /\ conns' = Append(conns, NewConn)
    /\ UNCHANGED <<now, udpVars, bursts, accPc, accErrs>>

\* Mutant: an accept error ends the loop (return Err(e.into())).
AcceptErr_Fatal ==
    /\ accPc = "accept"
    /\ accPc' = "terminated"
    /\ accErrs' = IF accErrs < 2 THEN accErrs + 1 ELSE 2
    /\ UNCHANGED <<now, udpVars, bursts, conns>>

\* accept returns Err (lines 72-76): report, sleep 10 ms.
AcceptErr ==
    /\ accPc = "accept"
    /\ accPc' = "sleep"
    /\ accErrs' = IF accErrs < 2 THEN accErrs + 1 ELSE 2
    /\ UNCHANGED <<now, udpVars, bursts, conns>>

\* The sleep after an accept error ends (line 75): the loop accepts again.
AccSleepDone ==
    /\ accPc = "sleep"
    /\ accPc' = "accept"
    /\ UNCHANGED <<now, udpVars, bursts, accErrs, conns>>

\* ---------------------------------------------------------- TCP handler
\* The while condition of the download phase (line 108) read at t: the next
\* write_all is initiated, or the phase ends, prints its total (line 120) and the
\* handler reads the next command.
NextWriteOrDone(h, t) ==
    IF WindowOpen(h.start, t)
    THEN [h EXCEPT !.pc = "dl_write", !.opAt = t]
    ELSE [h EXCEPT !.pc = "cmd", !.rep = h.bytes, !.opAt = -1]

\* Mutant: the upload loop reads on without looking at the clock.
NextReadOrDone_NoCheck(h, t) == [h EXCEPT !.pc = "ul_read", !.opAt = t]

\* The while condition of the upload phase (line 124) read at t: the next read is
\* initiated, or the phase ends, prints its total (line 141) and the handler
\* reads the next command.
NextReadOrDone(h, t) ==
    IF WindowOpen(h.start, t)
    THEN [h EXCEPT !.pc = "ul_read", !.opAt = t]
    ELSE [h EXCEPT !.pc = "cmd", !.rep = h.bytes, !.opAt = -1]

\* break out of a phase (lines 112, 115, 126, 133, 137), then lines 120 / 141.
PhaseBreak(h) == [h EXCEPT !.pc = "cmd", !.rep = h.bytes, !.opAt = -1]

\* The read of the command loop returns Ok(0) or ConnectionReset (lines 87-95).
CmdClosed(c) ==
    /\ c \in DOMAIN conns
    /\ conns[c].pc = "cmd"
    /\ conns' = [conns EXCEPT ![c] = [@ EXCEPT !.pc = "closed", !.ret = "ok"]]
    /\ UNCHANGED <<now, udpVars, bursts, accPc, accErrs>>

\* Mutant: the acceptor awaits the handler itself (handle_tcp_client(..).await?),
\* so a handler's error return ends the accept loop.
CmdReadErr_Propagates(c) ==
    /\ c \in DOMAIN conns
    /\ conns[c].pc = "cmd"
    /\ conns' = [conns EXCEPT ![c] = [@ EXCEPT !.pc = "closed", !.ret = "err"]]
    /\ accPc' = "terminated"
    /\ UNCHANGED <<now, udpVars, bursts, accErrs>>

\* The read of the command loop returns another Err (lines 96-99).
CmdReadErr(c) ==
    /\ c \in DOMAIN conns
    /\ conns[c].pc = "cmd"
    /\ conns' = [conns EXCEPT ![c] = [@ EXCEPT !.pc = "closed", !.ret = "err"]]
    /\ UNCHANGED <<now, udpVars, bursts, accPc, accErrs>>

\* The read of the command loop returns Ok(n), n > 0, with text p (lines 91,
\* 101-107, 121-124, 142-144).
CmdRead(c, p) ==
    /\ c \in DOMAIN conns
    /\ conns[c].pc = "cmd"
    /\ p # <<>>
    /\ LET h == [conns[c] EXCEPT !.start = now, !.bytes = 0, !.late = 0, !.rep = -1] IN
       conns' = [conns EXCEPT ![c] =
                   CASE Classify(p) = "download" -> NextWriteOrDone(h, now)
                     [] Classify(p) = "upload" -> NextReadOrDone(h, now)
                     [] OTHER -> [conns[c] EXCEPT !.rep = -1]]
    /\ UNCHANGED <<now, udpVars, bursts, accPc, accErrs>>

\* write_all returns Ok (lines 109, 118): count the chunk, read the condition.
DlWriteOk(c) ==
    /\ c \in DOMAIN conns
    /\ conns[c].pc = "dl_write"
    /\ conns[c].bytes + BUF_SIZE <= MaxChunks * BUF_SIZE
    /\ conns' = [conns EXCEPT ![c] =
                   NextWriteOrDone([@ EXCEPT !.bytes = @ + BUF_SIZE], now)]
    /\ UNCHANGED <<now, udpVars, bursts, accPc, accErrs>>

\* write_all returns Err, of either class (lines 109-116): the phase ends.
DlWriteErr(c) ==
    /\ c \in DOMAIN conns
    /\ conns[c].pc = "dl_write"
    /\ conns' = [conns EXCEPT ![c] = PhaseBreak(@)]
    /\ UNCHANGED <<now, udpVars, bursts, accPc, accErrs>>

\* read returns Ok(m), m > 0 (line 127): count, read the condition.
UlReadData(c, m) ==
    /\ c \in DOMAIN conns
    /\ conns[c].pc = "ul_read"
    /\ conns[c].bytes + m <= MaxRx
    /\ LET h == conns[c]
           lateNow == IF WindowOpen(h.start, now) THEN 0 ELSE 1 IN
       conns' = [conns EXCEPT ![c] =
                   NextReadOrDone(
                       [h EXCEPT !.bytes = h.bytes + m,
                                 !.late = IF h.late + lateNow > 2 THEN 2
                                          ELSE h.late + lateNow],
                       now)]
    /\ UNCHANGED <<now, udpVars, bursts, accPc, accErrs>>

\* read returns Ok(0), ConnectionReset or another Err (lines 126, 131-138).
UlReadEnd(c) ==
    /\ c \in DOMAIN conns
    /\ conns[c].pc = "ul_read"
    /\ conns' = [conns EXCEPT ![c] = PhaseBreak(@)]
    /\ UNCHANGED <<now, udpVars, bursts, accPc, accErrs>>

\* Mutant: WouldBlock is treated like the other read errors and ends the phase.
UlReadWouldBlock_Breaks(c) ==
    /\ c \in DOMAIN conns
    /\ conns[c].pc = "ul_read"
    /\ conns' = [conns EXCEPT ![c] = PhaseBreak(@)]
    /\ UNCHANGED <<now, udpVars, bursts, accPc, accErrs>>

\* read returns WouldBlock (lines 128-130): yield.
UlReadWouldBlock(c) ==
    /\ c \in DOMAIN conns
    /\ conns[c].pc = "ul_read"
    /\ conns' = [conns EXCEPT ![c] = [@ EXCEPT !.pc = "ul_yield", !.opAt = -1]]
    /\ UNCHANGED <<now, udpVars, bursts, accPc, accErrs>>

\* yield_now returns (line 129): read the condition.
UlYieldDone(c) ==
    /\ c \in DOMAIN conns
    /\ conns[c].pc = "ul_yield"
    /\ conns' = [conns EXCEPT ![c] = NextReadOrDone(@, now)]
    /\ UNCHANGED <<now, udpVars, bursts, accPc, accErrs>>

\* What a peer writes on a TCP connection.
TcpTexts == {<<"SD">>, <<"SU", "WS">>, <<"X">>, <<"WS", "X", "SU">>}
ReadSizes == {1, 2}

HandlerStep(c) ==
    \/ CmdClosed(c)
    \/ CmdReadErr(c)
    \/ \E p \in TcpTexts : CmdRead(c, p)
    \/ DlWriteOk(c)
    \/ DlWriteErr(c)
    \/ \E m \in ReadSizes : UlReadData(c, m)
    \/ UlReadEnd(c)
    \/ UlReadWouldBlock(c)
    \/ UlYieldDone(c)

DispatcherStep ==
    \/ \E ok \in BOOLEAN : DlAckDone(ok)
    \/ DlSleepDone
    \/ \E ok \in BOOLEAN : UlAckDone(ok)
    \/ UlSleepDone
    \/ \E ok \in BOOLEAN : UlProbeDone(ok)
    \/ RecvErrSleepDone

Init ==
    /\ now = 0
    /\ dpc = "recv"
    /\ dAddr = NoAddr
    /\ dAcks = 0
    /\ dStale = {}
    /\ lock = "free"
    /\ table = {}
    /\ out = {}
    /\ sess = [a \in Addrs |-> NoSession]
    /\ bursts = <<>>
    /\ accPc = "accept"
    /\ accErrs = 0
    /\ conns = <<>>

NextUdp ==
    \/ Tick
    \/ \E a \in Addrs, p \in Payloads : Deliver(a, p)
    \/ RecvErr
    \/ DispatcherStep

SpecUdp == Init /\ [][NextUdp]_vars

\* One START_DOWNLOAD, its three ACKs, and the burst sender it spawns.
FirstDownload == bursts = <<>> /\ \E a \in Addrs, p \in ControlPayloads : Deliver(a, p) /\ dpc' = "dl_ack"

NextBurst ==
    \/ Tick
    \/ FirstDownload
    \/ \E ok \in BOOLEAN : DlAckDone(ok)
    \/ DlSleepDone
    \/ \E k \in 1..MaxBursts : BurstStep(k)

SpecBurst == Init /\ [][NextBurst]_vars

\* Fairness the runtime gives a burst sender: time passes, and a send_to, sleep or
\* yield it awaits completes.  Whether a send succeeds is not constrained.
FairBurst == SpecBurst /\ WF_vars(Tick) /\ \A k \in 1..MaxBursts : WF_vars(BurstStep(k))

\* The accepted connections and their handlers.
NextTcp ==
    \/ Tick
    \/ AcceptOk
    \/ \E c \in 1..MaxConns : HandlerStep(c)

SpecTcp == Init /\ [][NextTcp]_vars

\* Fairness the runtime gives a handler: time passes and a yield returns.  When a
\* read or write completes is the peer's choice.
FairTcp == SpecTcp /\ WF_vars(Tick) /\ WF_vars(\E c \in 1..MaxConns : UlYieldDone(c))

\* The two server loops under data traffic and errors.
NextLoops ==
    \/ Tick
    \/ AcceptOk
    \/ AcceptErr
    \/ AccSleepDone
    \/ RecvErr
    \/ RecvErrSleepDone
    \/ \E a \in Addrs, p \in DataPayloads : Deliver(a, p)

\* Fairness the runtime gives the loops: a sleep ends.
FairLoops == Init /\ [][NextLoops]_vars /\ WF_vars(AccSleepDone) /\ WF_vars(RecvErrSleepDone)

\* Fairness the runtime gives the dispatcher: a send or sleep it awaits completes.
FairUdp == SpecUdp /\ WF_vars(DispatcherStep)

\* ======================================================== claims: UDP upload
UploadPcs == {"ul_ack", "ul_sleep", "ul_probe"}

\* C1: the table never holds two entries for one address, and while a START_UPLOAD
\* from dAddr is being handled the one entry of dAddr is the fresh one:
\* deadline = processing time + 5 s, byte count 0.
C1_SessionUniqueness ==
    /\ \A a \in Addrs : Cardinality(MapGet(table, a)) <= 1
    /\ dpc \in UploadPcs =>
         MapGet(table, dAddr) =
            {[addr |-> dAddr, deadline |-> sess[dAddr].start + WINDOW, total |-> 0]}

\* A START_UPLOAD that replaced an unexpired entry, later than the first one.
C1_Witness ==
    /\ dpc = "ul_ack"
    /\ dAcks = 0
    /\ \E l \in out : l.kind = "overwrote" /\ l.addr = dAddr /\ l.total > 0

\* C2: every final count printed (expired on arrival, or swept) equals the sum of
\* the lengths of the non-control datagrams of that address processed inside the
\* window since its most recent START_UPLOAD.
C2_UploadAccounting ==
    \A l \in out : l.kind \in {"final", "swept"} => l.total = sess[l.addr].sum

C2_Witness == \E l \in out : l.kind \in {"final", "swept"} /\ l.total >= 2

ExpiredAt(a, t) == \E e \in MapGet(table, a) : t > e.deadline

\* C3: a non-control datagram of a processed after the deadline of a's entry removes
\* the entry in that step, prints its count as it was, and raises no count.
C3_LateDatagramNotCounted ==
    [][\A a \in Addrs, p \in DataPayloads :
          (Deliver(a, p) /\ ExpiredAt(a, now)) =>
             /\ MapGet(table', a) = {}
             /\ table' \subseteq table
             /\ \A e \in MapGet(table, a) : Line("final", a, e.total) \in out']_vars

C3_Witness == \E l \in out : l.kind = "final" /\ l.total > 0 /\ l.addr = dAddr

\* C4: a non-control datagram of an address with no entry creates no entry and
\* changes no count; the entries that go are expired entries of other addresses.
C4_UnmatchedInert ==
    [][\A a \in Addrs, p \in DataPayloads :
          (Deliver(a, p) /\ MapGet(table, a) = {}) =>
             /\ table' \subseteq table
             /\ \A e \in table \ table' : e.addr # a /\ now' > e.deadline]_vars

C4_Witness ==
    /\ \E l \in out : l.kind = "nowindow" /\ l.total > 0 /\ l.addr = dAddr
    /\ \E e \in table : e.total > 0

\* C5: an entry whose deadline has passed is eventually gone with its count printed
\* exactly once, as long as datagrams of other peers keep being processed.
C5_SweepCompleteness ==
    \A a \in Addrs :
        ([]<><<\E b \in Addrs \ {a}, p \in Payloads : Deliver(b, p)>>_vars)
        => [](ExpiredAt(a, now) => <>(MapGet(table, a) = {} /\ sess[a].reports = 1))

\* The entries already expired when the handling that a step finishes had started.
StaleAtStart == IF dpc = "recv" THEN Stale(table, now) ELSE dStale

FinishesHandling ==
    \/ dpc = "recv" /\ \E a \in Addrs, p \in Payloads : Deliver(a, p) /\ dpc' = "recv"
    \/ dpc \in {"dl_sleep", "ul_probe"} /\ dpc' = "recv"

\* C6: when the handling of a datagram of any kind finishes, no entry is left whose
\* deadline had passed when the handling started.
C6_AnyDatagramSweeps ==
    [][FinishesHandling => table' \cap StaleAtStart = {}]_vars

\* ===================================================== claims: time windows
\* C7: a burst sender initiates no filler send after start + 5 s.
C7_NoSendAfterWindow ==
    \A k \in DOMAIN bursts :
        bursts[k].pc = "send" => bursts[k].sendAt <= bursts[k].start + WINDOW

\* C7 as amended: no burst begins at or after start + 5 s; a send initiated at or
\* after start + 5 s is the 2nd..16th send of the burst begun before it.
C7_WindowBoundPerBurst ==
    \A k \in DOMAIN bursts :
        (bursts[k].pc = "send" /\ bursts[k].sendAt >= bursts[k].start + WINDOW)
            => 0 < bursts[k].i /\ bursts[k].i < BURST

\* The 16th send of a burst, initiated after the window.
C7_Witness ==
    \E k \in DOMAIN bursts :
        /\ bursts[k].pc = "send"
        /\ bursts[k].sendAt > bursts[k].start + WINDOW
        /\ bursts[k].i = BURST - 1

\* C8: every read of a TCP upload phase and every write of a TCP download phase is
\* initiated before start + 5 s, and at most one counted read returns at or after
\* start + 5 s.
C8_TcpWindowBound ==
    \A c \in DOMAIN conns :
        /\ conns[c].pc \in {"ul_read", "dl_write"} => conns[c].opAt < conns[c].start + WINDOW
        /\ conns[c].late <= 1

\* An upload phase ended by the window after counting a read that returned late.
C8_Witness ==
    \E c \in DOMAIN conns :
        /\ conns[c].pc = "cmd"
        /\ conns[c].late = 1
        /\ conns[c].rep = MaxRx
        /\ now >= conns[c].start + WINDOW

\* ========================================================= claims: the loops
\* C9: neither loop terminates; an accept or receive error leads to the delay and
\* the delay to the next accept or receive.
C9_ServerResilience ==
    /\ [](accPc \in {"accept", "sleep"})
    /\ [](dpc \in {"recv", "err_sleep", "dl_ack", "dl_sleep", "ul_ack", "ul_sleep", "ul_probe"})
    /\ [][accPc = "sleep" => accPc' \in {"sleep", "accept"}]_vars
    /\ [][dpc = "err_sleep" => dpc' \in {"err_sleep", "recv"}]_vars
    /\ (accPc = "sleep" ~> accPc = "accept")
    /\ (dpc = "err_sleep" ~> dpc = "recv")

\* The acceptor accepting after two errors, the dispatcher in its delay after one.
C9_Witness ==
    /\ accErrs = 2
    /\ accPc = "accept"
    /\ Len(conns) > 0
    /\ dpc = "err_sleep"
    /\ dAddr # NoAddr

InPhase(c) == c \in DOMAIN conns /\ conns[c].pc \in {"dl_write", "ul_read", "ul_yield"}
PhaseOver(c) == c \in DOMAIN conns /\ conns[c].pc = "cmd" /\ conns[c].rep >= 0

\* C10: every TCP download or upload phase ends: its total is printed and the
\* handler is back in the command loop.
C10_PhaseCompletion == \A c \in 1..MaxConns : InPhase(c) ~> PhaseOver(c)

\* ===================================================== claims: isolation
\* The server with several tasks alive at one instant, each state built with the
\* operators of the actions that lead to it:
\*   two accepted connections while a START_UPLOAD of A is being acknowledged;
\*   one burst sender spawned while a START_DOWNLOAD of B is being acknowledged;
\*   one accepted connection and one burst sender, the dispatcher receiving.
InitTasks ==
    /\ now = 0
    /\ dAcks = 0
    /\ dStale = {}
    /\ lock = "free"
    /\ out = {}
    /\ accPc = "accept"
    /\ accErrs = 0
    /\ \/ /\ conns = <<NewConn, NewConn>>
          /\ bursts = <<>>
          /\ dpc = "ul_ack"
          /\ dAddr = "A"
          /\ table = RegisterUpload({}, "A", 0)
          /\ sess = SessOpen([a \in Addrs |-> NoSession], "A", 0)
       \/ /\ conns = <<>>
          /\ bursts = <<NewBurst("A")>>
          /\ dpc = "dl_ack"
          /\ dAddr = "B"
          /\ table = {}
          /\ sess = [a \in Addrs |-> NoSession]
       \/ /\ conns = <<NewConn>>
          /\ bursts = <<NewBurst("A")>>
          /\ dpc = "recv"
          /\ dAddr = "A"
          /\ table = {}
          /\ sess = [a \in Addrs |-> NoSession]

\* A burst sender whose every send_to fails (lines 196-206, 214-216).
FailingBurstStep(k) ==
    \/ BurstBegin(k)
    \/ BurstSendErr(k)
    \/ BurstBackoffDone(k)
    \/ BurstIdleDone(k)

\* All tasks at one instant: the first burst sender takes every pattern of
\* results, a second one only failures.
NextTasks ==
    \/ AcceptErr
    \/ AccSleepDone
    \/ RecvErr
    \/ DispatcherStep
    \/ \E c \in DOMAIN conns : HandlerStep(c)
    \/ \E k \in DOMAIN bursts : IF k = 1 THEN BurstStep(k) ELSE FailingBurstStep(k)

SpecTasks == InitTasks /\ [][NextTasks]_vars

\* Steps in which an operation of a task fails.
HandlerFailure(c) == CmdReadErr(c) \/ DlWriteErr(c) \/ UlReadEnd(c)
AckFailure == DlAckDone(FALSE) \/ UlAckDone(FALSE) \/ UlProbeDone(FALSE)

OtherConnsSame(c) ==
    /\ Len(conns') = Len(conns)
    /\ \A d \in DOMAIN conns \ {c} : conns'[d] = conns[d]

OtherBurstsSame(k) ==
    /\ Len(bursts') = Len(bursts)
    /\ \A j \in DOMAIN bursts \ {k} : bursts'[j] = bursts[j]

DispatcherSame == UNCHANGED <<dpc, dAddr, dAcks, table>>
AcceptorSame == UNCHANGED <<accPc, accErrs>>

\* C11: a failed read or write of a TCP handler (and its error return), a failed
\* send of a burst sender and a failed ACK or probe send change no other handler,
\* no other burst sender, and neither loop; the loops never terminate and a
\* handler terminates only by a step of its own command loop.
C11_FailureIsolation ==
    /\ [](accPc \in {"accept", "sleep"})
    /\ [](dpc \in {"recv", "err_sleep", "dl_ack", "dl_sleep", "ul_ack", "ul_sleep", "ul_probe"})
    /\ [][/\ \A c \in DOMAIN conns :
                /\ HandlerFailure(c) =>
                      OtherConnsSame(c) /\ bursts' = bursts /\ DispatcherSame /\ AcceptorSame
                /\ (conns[c].pc # "closed" /\ conns'[c].pc = "closed") =>
                      CmdClosed(c) \/ CmdReadErr(c)
          /\ \A k \in DOMAIN bursts :
                /\ BurstSendErr(k) =>
                      OtherBurstsSame(k) /\ conns' = conns /\ DispatcherSame /\ AcceptorSame
                /\ bursts'[k].pc # bursts[k].pc => BurstStep(k)
          /\ AckFailure =>
                /\ conns' = conns /\ bursts' = bursts /\ table' = table /\ AcceptorSame
                /\ dpc' \in {"dl_sleep", "ul_sleep", "recv"}]_vars

\* A handler has returned an error and a probe send has failed while the other
\* handler is counting uploaded bytes and the acceptor accepts again.
C11_Witness ==
    /\ \E c, d \in DOMAIN conns :
          /\ conns[c].ret = "err"
          /\ conns[d].pc = "ul_read"
          /\ conns[d].bytes > 0
    /\ \E l \in out : l.kind = "probefail"
    /\ dpc = "recv"
    /\ accPc = "accept"
    /\ accErrs > 0

\* ================================================ claims: UDP handshakes
DownloadPcs == {"dl_ack", "dl_sleep"}

\* C12: while a START_DOWNLOAD is acknowledged fewer than 3 ACK_DOWNLOAD attempts
\* are complete and no burst sender of the request exists; an ACK attempt, failed
\* or not, is followed by the sleep; the burst sender, exactly one and for the
\* requesting address, is spawned by the step after the third attempt, and that
\* step puts the dispatcher back at recv_from with the sender not yet run.
C12_DownloadHandshake ==
    /\ [](dpc \in DownloadPcs => dAcks < ACKS /\ bursts = <<>>)
    /\ [][/\ dpc = "dl_ack" => dpc' = "dl_sleep" /\ dAcks' = dAcks /\ bursts' = bursts
          /\ (dpc = "dl_sleep" /\ dAcks + 1 < ACKS) =>
                dpc' = "dl_ack" /\ dAcks' = dAcks + 1 /\ bursts' = bursts
          /\ (dpc = "dl_sleep" /\ dAcks + 1 = ACKS) =>
                dpc' = "recv" /\ bursts' = Append(bursts, NewBurst(dAddr))
          /\ Len(bursts') # Len(bursts) => dpc = "dl_sleep" /\ dAcks + 1 = ACKS]_<<dpc, dAcks, bursts>>

\* The dispatcher is receiving again while the sender it spawned is sending.
C12_Witness ==
    /\ dpc = "recv"
    /\ Len(bursts) = 1
    /\ bursts[1].dest = dAddr
    /\ bursts[1].pc = "send"
    /\ bursts[1].sent > 0

\* C13: the step that takes a START_UPLOAD of an address inserts its entry
\* (deadline = now + 5 s, count 0) before any ACK attempt; then come 3 ACK_UPLOAD
\* attempts, each followed by the sleep, then one probe attempt, then recv_from;
\* no attempt, failed or not, ends the sequence early or changes the table.
C13_UploadHandshake ==
    /\ [](dpc \in UploadPcs => dAcks < ACKS + 1 /\ (dpc = "ul_probe" <=> dAcks = ACKS))
    /\ [][/\ (dpc = "recv" /\ dpc' = "ul_ack") =>
                /\ dAcks' = 0
                /\ MapGet(table', dAddr') =
                      {[addr |-> dAddr', deadline |-> now + WINDOW, total |-> 0]}
          /\ dpc = "ul_ack" => dpc' = "ul_sleep" /\ dAcks' = dAcks /\ table' = table
          /\ (dpc = "ul_sleep" /\ dAcks + 1 < ACKS) =>
                dpc' = "ul_ack" /\ dAcks' = dAcks + 1 /\ table' = table
          /\ (dpc = "ul_sleep" /\ dAcks + 1 = ACKS) =>
                dpc' = "ul_probe" /\ dAcks' = ACKS /\ table' = table
          /\ dpc = "ul_probe" => dpc' = "recv" /\ table' = table
          /\ dpc' \in UploadPcs => dpc \in UploadPcs \cup {"recv"}]_<<dpc, dAcks, table>>

\* The probe send has failed after three ACK attempts and the entry is in place.
C13_Witness ==
    /\ dpc = "recv"
    /\ dAcks = ACKS
    /\ \E l \in out : l.kind = "probefail" /\ l.addr = dAddr
    /\ \E e \in MapGet(table, dAddr) : e.total = 0 /\ e.deadline = sess[dAddr].start + WINDOW
    /\ \E e \in table : e.addr # dAddr /\ e.total > 0

\* ======================================================== claims: the lock
\* The dispatcher with the table in use and one burst sender at work.  The clock
\* advances at the second reading of a non-control datagram's handling.
NextLock ==
    \/ \E a \in Addrs, p \in {<<"SU">>, <<"X">>} : Deliver(a, p)
    \/ FirstDownload
    \/ \E ok \in BOOLEAN : DlAckDone(ok)
    \/ DlSleepDone
    \/ \E ok \in BOOLEAN : UlAckDone(ok)
    \/ UlSleepDone
    \/ \E ok \in BOOLEAN : UlProbeDone(ok)
    \/ \E k \in DOMAIN bursts : FailingBurstStep(k)

SpecLock == Init /\ [][NextLock]_vars

\* C14: at every suspension point nobody holds the lock of the table; a step that
\* changes the table is the dispatcher's handling of one datagram and does one
\* insert, or one lookup-and-count followed by the sweep; a step of a burst
\* sender changes neither the table nor the lock.
C14_LockDiscipline ==
    /\ [](lock = "free")
    /\ [][/\ table' # table =>
                /\ dpc = "recv"
                /\ bursts' = bursts
                /\ \/ table' = RegisterUpload(table, dAddr', now)
                   \/ \E p \in DataPayloads, t2 \in {now, now + 1} :
                         table' = Sweep(CountData(table, dAddr', ByteLen(p), now).map, t2).map
          /\ (\E k \in DOMAIN bursts : bursts'[k] # bursts[k]) =>
                table' = table /\ lock' = lock]_vars

\* A burst sender is between two sends while the dispatcher, having counted a
\* datagram under the lock, sleeps after an ACK_UPLOAD of another address.
C14_Witness ==
    /\ dpc = "ul_sleep"
    /\ \E e \in table : e.addr # dAddr /\ e.total > 0
    /\ MapGet(table, dAddr) # {}
    /\ \E k \in DOMAIN bursts : bursts[k].pc = "backoff"
    /\ lock = "free"

\* ===================================================== claims: burst sender
\* C15: a burst has at most 16 sends; a send that fails is followed by the backoff
\* and the backoff by no send of that burst; a burst with a successful send ends
\* in the yield, a burst without one in the sleep, and only the yield or that
\* sleep leads to the window check that starts the next burst or ends the task.
C15_BurstAbort ==
    /\ [](\A k \in DOMAIN bursts :
            /\ bursts[k].pc = "send" => bursts[k].i < BURST /\ (bursts[k].any <=> bursts[k].i > 0)
            /\ bursts[k].pc = "yield" => bursts[k].any
            /\ bursts[k].pc = "idle" => ~bursts[k].any)
    /\ [][\A k \in DOMAIN bursts :
            LET b == bursts[k]
                c == bursts'[k] IN
            c # b =>
              /\ b.pc = "send" =>
                    \/ c.pc = "send" /\ c.i = b.i + 1 /\ c.sent = b.sent + PAYLOAD_SIZE
                    \/ c.pc = "yield" /\ b.i + 1 = BURST /\ c.sent = b.sent + PAYLOAD_SIZE
                    \/ c.pc = "backoff" /\ c.i = b.i /\ c.any = b.any /\ c.sent = b.sent
              /\ b.pc = "backoff" =>
                    c.pc = (IF b.any THEN "yield" ELSE "idle") /\ c.sent = b.sent
              /\ b.pc \in {"yield", "idle"} =>
                    /\ c.sent = b.sent
                    /\ \/ c.pc = "done"
                       \/ c.pc = "send" /\ c.i = 0 /\ ~c.any /\ WindowOpen(b.start, now)]_bursts

\* A burst broken off by a failed send after some successful ones, not the first
\* burst of its sender, is in the yield.
C15_Witness ==
    \E k \in DOMAIN bursts :
        /\ bursts[k].pc = "yield"
        /\ bursts[k].i > 0
        /\ bursts[k].i < BURST
        /\ bursts[k].sent > bursts[k].i * PAYLOAD_SIZE

\* A burst sender that has begun and whose window ends before the clock stops.
Begun(k) ==
    /\ k \in DOMAIN bursts
    /\ bursts[k].start >= 0
    /\ bursts[k].start + WINDOW <= MaxTime

Finished(k) == k \in DOMAIN bursts /\ bursts[k].pc = "done"

\* C16: a burst sender that has begun finishes, whatever its sends return, and
\* not before start + 5 s; its byte total starts at 0 and changes only when a
\* send returns Ok, by the byte count returned, so the total it prints at the end
\* is the sum over its successful sends.
C16_BurstTermination ==
    /\ \A k \in 1..MaxBursts : Begun(k) ~> Finished(k)
    /\ [](\A k \in DOMAIN bursts :
            /\ bursts[k].pc = "done" => now >= bursts[k].start + WINDOW
            /\ bursts[k].pc = "spawned" => bursts[k].sent = 0)
    /\ [][\A k \in DOMAIN bursts :
            /\ bursts'[k].sent # bursts[k].sent =>
                  BurstSendOk(k) /\ bursts'[k].sent = bursts[k].sent + PAYLOAD_SIZE
            /\ bursts[k].pc = "done" => bursts'[k] = bursts[k]]_bursts

\* A sender finished with exactly one successful send: every other send failed.
C16_Witness ==
    \E k \in DOMAIN bursts :
        /\ bursts[k].pc = "done"
        /\ bursts[k].sent = PAYLOAD_SIZE
        /\ now >= bursts[k].start + WINDOW

\* ====================================================== claims: TCP handler
\* The trimmed text begins with neither command.
NeitherCommand(p) == Trim(p) = <<>> \/ Head(Trim(p)) \notin {"SD", "SU"}

Terminated(h) == h.pc = "closed"

\* C17: in the command loop a read of 0 bytes or a connection reset ends the
\* handler with Ok, another read error ends it with Err, and a text that begins
\* with neither command leaves it in the command loop with no phase entered; a
\* handler ends in no other way and a handler that has ended takes no step.
C17_CommandLoop ==
    /\ [](\A c \in DOMAIN conns : Terminated(conns[c]) <=> conns[c].ret \in {"ok", "err"})
    /\ [][\A c \in DOMAIN conns :
            LET h == conns[c]
                g == conns'[c] IN
            g # h =>
              /\ ~Terminated(h)
              /\ Terminated(g) => h.pc = "cmd"
              /\ h.pc = "cmd" =>
                    /\ CmdClosed(c) => Terminated(g) /\ g.ret = "ok"
                    /\ CmdReadErr(c) => Terminated(g) /\ g.ret = "err"
                    /\ \A p \in TcpTexts :
                          (NeitherCommand(p) /\ CmdRead(c, p)) =>
                              /\ g.pc = "cmd" /\ g.ret = "none" /\ g.rep = -1
                              /\ g.start = h.start /\ g.bytes = h.bytes]_conns

\* A handler back in the command loop after a phase and then an unrecognised text.
C17_Witness ==
    \E c \in DOMAIN conns :
        /\ conns[c].pc = "cmd"
        /\ conns[c].rep = -1
        /\ conns[c].bytes > 0
        /\ conns[c].ret = "none"

\* C18: in an upload phase a read that returns WouldBlock leads to the yield, and
\* the yield to the next read if the window is open (to the end of the phase if
\* not); a read of 0 bytes, a reset or another error ends the phase in that step;
\* however the phase ends, the byte count so far is printed and the handler is in
\* the command loop, not terminated.
C18_UploadReadOutcomes ==
    [][\A c \in DOMAIN conns :
          LET h == conns[c]
              g == conns'[c] IN
          g # h =>
            /\ h.pc = "ul_read" =>
                  /\ UlReadWouldBlock(c) => g.pc = "ul_yield"
                  /\ UlReadEnd(c) => g.pc = "cmd" /\ g.rep = h.bytes
                  /\ \/ g.pc = "ul_yield" /\ g.bytes = h.bytes
                     \/ g.pc = "ul_read" /\ g.bytes > h.bytes /\ WindowOpen(h.start, now)
                     \/ g.pc = "cmd" /\ g.rep = g.bytes /\ g.bytes >= h.bytes
            /\ h.pc = "ul_yield" =>
                  /\ g.bytes = h.bytes
                  /\ IF WindowOpen(h.start, now)
                     THEN g.pc = "ul_read"
                     ELSE g.pc = "cmd" /\ g.rep = h.bytes
            /\ h.pc \in {"ul_read", "ul_yield"} => g.ret = "none" /\ g.start = h.start]_conns

\* A read has returned WouldBlock after bytes were counted: the phase goes on.
C18_Witness ==
    \E c \in DOMAIN conns :
        /\ conns[c].pc = "ul_yield"
        /\ conns[c].bytes > 0
        /\ WindowOpen(conns[c].start, now)

\* ==================================================== claims: the table
FinalCounts(log) == {l \in log : l.kind \in {"final", "swept"}}

\* C19: the step that takes a START_UPLOAD of an address replaces the entry of
\* that address, expired or not, and prints no final count; a final count is
\* printed only by the handling of a non-control datagram, for an entry of the
\* table with its count (this datagram included if it was counted), which the
\* same step removes: the entry of the sender found expired, or an entry the
\* sweep finds expired.
C19_OverwriteSilent ==
    [][/\ (dpc = "recv" /\ dpc' = "ul_ack") =>
            /\ FinalCounts(out') = {}
            /\ sess'[dAddr'].reports = 0
            /\ \A e \in MapGet(table, dAddr') : e \notin table' \/ e.total = 0
       /\ out' # out =>
            \A l \in FinalCounts(out') :
                /\ dpc = "recv" /\ dpc' = "recv"
                /\ MapGet(table', l.addr) = {}
                /\ l.kind = "final" => l.addr = dAddr'
                /\ \E e \in MapGet(table, l.addr) :
                      /\ now' > e.deadline
                      /\ l.total - e.total \in {0} \cup {ByteLen(p) : p \in DataPayloads}
                      /\ l.total # e.total =>
                            l.kind = "swept" /\ l.addr = dAddr' /\ now <= e.deadline]_vars

\* A START_UPLOAD has replaced an expired entry that had counted bytes, unreported.
C19_Witness ==
    /\ dpc = "ul_ack"
    /\ \E l \in out : l.kind = "overwrote-expired" /\ l.addr = dAddr /\ l.total > 0
    /\ sess[dAddr].reports = 0

IsDownload(p) == Trim(p) # <<>> /\ Head(Trim(p)) = "SD"
IsUpload(p) == Trim(p) # <<>> /\ Head(Trim(p)) = "SU"

\* C20: the handling of a datagram whose trimmed text begins with START_DOWNLOAD
\* leaves the table as it is; that of one that begins with START_UPLOAD changes
\* only the sender's entry, to one with count 0; neither adds the datagram's length
\* to a count.  In every step that is not the START_UPLOAD of its address an entry
\* that stays keeps its deadline and does not lose bytes.
C20_ClassifyBeforeCount ==
    [][/\ dpc = "recv" =>
            \A a \in Addrs, p \in ControlPayloads :
                Deliver(a, p) =>
                  /\ IsDownload(p) => table' = table
                  /\ IsUpload(p) =>
                        /\ table' \ MapGet(table', a) = table \ MapGet(table, a)
                        /\ \A e \in MapGet(table', a) : e.total = 0
       /\ \A e \in table, g \in table' :
            (g.addr = e.addr /\ ~(dpc = "recv" /\ dpc' = "ul_ack" /\ dAddr' = e.addr)) =>
                g.deadline = e.deadline /\ g.total >= e.total]_vars

\* A START_DOWNLOAD of an address is being acknowledged while the counting
\* session of that address is open with bytes counted.
C20_Witness ==
    /\ dpc = "dl_ack"
    /\ \E e \in MapGet(table, dAddr) : e.total > 0 /\ now <= e.deadline

====
